---- MODULE Spec2Model ----
(***************************************************************************)
(* C-Bus network identifiers (lib/cbus-netid.js): construction and         *)
(* validation, parsing, classification, formatting, hashing, equality and  *)
(* ordering.                                                               *)
(*                                                                         *)
(* Strings are sequences of one-character strings.  A JavaScript value is  *)
(* a record [t, v, s]: t is "undef", "num" or "str", v the number, s the   *)
(* characters.  A field of a netId is <<>> (undefined) or <<n>>.           *)
(***************************************************************************)
EXTENDS Integers, Sequences, FiniteSets

VARIABLES x, y, z, out, pc

vars == <<x, y, z, out, pc>>

---------------------------------------------------------------------------
(* Characters and strings                                                  *)

DigitChars == <<"0", "1", "2", "3", "4", "5", "6", "7", "8", "9">>

UpperChars == <<"A", "B", "C", "D", "E", "F", "G", "H", "I", "J", "K", "L", "M",
                "N", "O", "P", "Q", "R", "S", "T", "U", "V", "W", "X", "Y", "Z">>

LowerChars == <<"a", "b", "c", "d", "e", "f", "g", "h", "i", "j", "k", "l", "m",
                "n", "o", "p", "q", "r", "s", "t", "u", "v", "w", "x", "y", "z">>

HexChars == <<"0", "1", "2", "3", "4", "5", "6", "7", "8", "9",
              "a", "b", "c", "d", "e", "f">>

Range(f) == {f[i] : i \in DOMAIN f}

DigitSet == Range(DigitChars)

UpperSet == Range(UpperChars)

IndexOf(f, c) == CHOOSE i \in DOMAIN f : f[i] = c

\* The UTF-16 code unit of a character (the ASCII code of the characters used).
CharCode ==
    [c \in {"/", "_"} \cup DigitSet \cup UpperSet \cup Range(LowerChars) |->
        IF c = "/" THEN 47
        ELSE IF c = "_" THEN 95
        ELSE IF c \in DigitSet THEN 47 + IndexOf(DigitChars, c)
        ELSE IF c \in UpperSet THEN 64 + IndexOf(UpperChars, c)
        ELSE 96 + IndexOf(LowerChars, c)]

\* JavaScript's a < b on strings: lexicographic on code units, a proper prefix first.
RECURSIVE StrLessFrom(_, _, _)
StrLessFrom(a, b, i) ==
    IF i > Len(b) THEN FALSE
    ELSE IF i > Len(a) THEN TRUE
    ELSE IF a[i] = b[i] THEN StrLessFrom(a, b, i + 1)
    ELSE CharCode[a[i]] < CharCode[b[i]]

StrLess(a, b) == StrLessFrom(a, b, 1)

AllDigits(s) == \A i \in DOMAIN s : s[i] \in DigitSet

\* The value of a run of decimal digits (parseInt of a digit string).
RECURSIVE DecVal(_)
DecVal(s) ==
    IF s = <<>> THEN 0
    ELSE 10 * DecVal(SubSeq(s, 1, Len(s) - 1)) + (IndexOf(DigitChars, s[Len(s)]) - 1)

\* Number.prototype.toString(radix) of an integer.
RECURSIVE NatToStr(_, _, _)
NatToStr(n, radix, digits) ==
    IF n < radix THEN <<digits[n + 1]>>
    ELSE NatToStr(n \div radix, radix, digits) \o <<digits[(n % radix) + 1]>>

IntToStr(n, radix, digits) ==
    IF n < 0 THEN <<"-">> \o NatToStr(0 - n, radix, digits)
    ELSE NatToStr(n, radix, digits)

---------------------------------------------------------------------------
(* JavaScript values                                                       *)

Undef == [t |-> "undef", v |-> 0, s |-> <<>>]

Num(n) == [t |-> "num", v |-> n, s |-> <<>>]

Str(s) == [t |-> "str", v |-> 0, s |-> s]

\* !!value
Truthy(value) ==
    CASE value.t = "undef" -> FALSE
      [] value.t = "num" -> value.v # 0
      [] OTHER -> value.s # <<>>

\* `${field}` of a netId field: the decimal number, or the text undefined.
FieldText(f) ==
    IF f = <<>> THEN <<"u", "n", "d", "e", "f", "i", "n", "e", "d">>
    ELSE IntToStr(f[1], 10, DigitChars)

\* cbusUtils.integerise (lib/cbus-utils.js), as the specification describes it:
\* a number stays, a string of decimal digits becomes its value, anything that
\* is no integer is undefined.
integerise(value) ==
    CASE value.t = "num" -> <<value.v>>
      [] value.t = "str" /\ value.s # <<>> /\ AllDigits(value.s) -> <<DecVal(value.s)>>
      [] OTHER -> <<>>

---------------------------------------------------------------------------
(* Validation                                                              *)

MaxByte == 255

ChannelLimit == 8

ProjectMaxLen == 8

FieldMaxDigits == 3

cgateReservedWords ==
    { <<"P">>, <<"C", "B", "U", "S">>, <<"V", "M">>,
      <<"C", "M", "D", "I", "N", "T">>, <<"C", "G", "A", "T", "E">>,
      <<"T", "A", "G">> }

\* A thrown error (its message, as a tuple of words), or a returned value.
Thrown(msg) == [ok |-> FALSE, err |-> msg, val |-> <<>>]

Returned(value) == [ok |-> TRUE, err |-> <<>>, val |-> value]

\* /^CMD([0-9]+)$/
IsCmdN(name) ==
    /\ Len(name) > 3
    /\ SubSeq(name, 1, 3) = <<"C", "M", "D">>
    /\ AllDigits(SubSeq(name, 4, Len(name)))

\* /^([0-9_]{1,8})$/
IsAllNumeric(name) ==
    /\ Len(name) \in 1..ProjectMaxLen
    /\ \A i \in DOMAIN name : name[i] \in DigitSet \cup {"_"}

\* /^([A-Z0-9_]{1,8})$/
IsProjectFormat(name) ==
    /\ Len(name) \in 1..ProjectMaxLen
    /\ \A i \in DOMAIN name : name[i] \in UpperSet \cup DigitSet \cup {"_"}

validatedProjectName(name) ==
    IF name \in cgateReservedWords
    THEN Thrown(<<"illegal project name", "reserved word">>)
    ELSE IF IsCmdN(name) THEN Thrown(<<"illegal project name", "CMDn">>)
    ELSE IF IsAllNumeric(name) THEN Thrown(<<"illegal project name", "all numeric">>)
    ELSE IF ~IsProjectFormat(name) THEN Thrown(<<"illegal project name", "format">>)
    ELSE Returned(name)

validatedNumber(value, name) ==
    LET n == integerise(value)
    IN  IF n # <<>> /\ (n[1] < 0 \/ n[1] > MaxByte)
        THEN Thrown(<<"out of range", name>>)
        ELSE Returned(n)

validatedChannelNumber(value) ==
    LET n == integerise(value)
    IN  IF (n # <<>> /\ n[1] # 0) /\ (n[1] <= 0 \/ n[1] >= ChannelLimit)
        THEN Thrown(<<"out of range", "channel">>)
        ELSE Returned(n)

---------------------------------------------------------------------------
(* The netId object                                                        *)

NetId(project, network, application, group, unitAddress, channel) ==
    [project |-> project, network |-> network, application |-> application,
     group |-> group, unitAddress |-> unitAddress, channel |-> channel]

\* No object: the constructor threw.
NoId == NetId(<<>>, <<>>, <<>>, <<>>, <<>>, <<>>)

Failed(msg) == [ok |-> FALSE, err |-> msg, id |-> NoId]

Built(id) == [ok |-> TRUE, err |-> <<>>, id |-> id]

\* The unit branch of the constructor: this.unitAddress.
UnitBranch(id, param4) ==
    LET ua == validatedNumber(param4, "unitAddress")
    IN  IF ~ua.ok THEN Failed(ua.err)
        ELSE IF ua.val = <<>> THEN Failed(<<"unit netIds must have a unitAddress">>)
        ELSE Built([id EXCEPT !.unitAddress = ua.val])

\* The other branch of the constructor: this.application and this.group.
GroupBranch(id, param3, param4) ==
    LET app == validatedNumber(param3, "application")
        grp == validatedNumber(param4, "group")
    IN  IF ~app.ok THEN Failed(app.err)
        ELSE IF ~grp.ok THEN Failed(grp.err)
        ELSE IF grp.val # <<>> /\ app.val = <<>>
             THEN Failed(<<"group netIds must have an application">>)
        ELSE Built([id EXCEPT !.application = app.val, !.group = grp.val])

\* NetworkCheck without its test of the application.
NetworkCheckNoApplication(id) ==
    IF id.network = <<>> /\ id.unitAddress # <<>>
    THEN Failed(<<"unit netIds must have a network">>)
    ELSE Built(id)

\* The end of the constructor: without a network, no application and no unit.
NetworkCheck(id) ==
    IF id.network = <<>> /\ id.application # <<>>
    THEN Failed(<<"netIds with application must have a network">>)
    ELSE IF id.network = <<>> /\ id.unitAddress # <<>>
    THEN Failed(<<"unit netIds must have a network">>)
    ELSE Built(id)

\* new CBusNetId(project, network, param3, param4, param5)
CBusNetId(project, network, param3, param4, param5) ==
    IF project.t = "undef" THEN Failed(<<"netIds must have a project">>)
    ELSE
      LET prj == validatedProjectName(project.s)
          chn == IF Truthy(param5) THEN validatedChannelNumber(param5)
                 ELSE Returned(<<>>)
          net == validatedNumber(network, "network")
          id  == NetId(prj.val, net.val, <<>>, <<>>, <<>>, chn.val)
          br  == IF param3 = Str(<<"p">>) THEN UnitBranch(id, param4)
                 ELSE GroupBranch(id, param3, param4)
      IN  IF ~prj.ok THEN Failed(prj.err)
          ELSE IF ~chn.ok THEN Failed(chn.err)
          ELSE IF ~net.ok THEN Failed(net.err)
          ELSE IF ~br.ok THEN br
          ELSE NetworkCheck(br.id)

---------------------------------------------------------------------------
(* Classification, formatting and hashing                                  *)

isProjectId(id) == id.network = <<>>

isNetworkId(id) ==
    id.network # <<>> /\ id.application = <<>> /\ id.unitAddress = <<>>

isApplicationId(id) == id.application # <<>> /\ id.group = <<>>

\* !this.channel: undefined and 0 are both falsy.
NoChannel(id) == id.channel = <<>> \/ id.channel = <<0>>

isGroupId(id) == ~isApplicationId(id) /\ NoChannel(id) /\ id.group # <<>>

isUnitId(id) == id.unitAddress # <<>>

Slash == <<"/">>

toString(id) ==
    LET net == FieldText(id.network)
        app == FieldText(id.application)
        grp == FieldText(id.group)
        root == Slash \o Slash \o id.project
    IN  IF isProjectId(id) THEN root
        ELSE IF isNetworkId(id) THEN root \o Slash \o net
        ELSE IF isApplicationId(id) THEN root \o Slash \o net \o Slash \o app
        ELSE IF isGroupId(id)
             THEN root \o Slash \o net \o Slash \o app \o Slash \o grp
        ELSE IF ~NoChannel(id)
             THEN root \o Slash \o net \o Slash \o app \o Slash \o grp
                       \o Slash \o FieldText(id.channel)
        ELSE root \o Slash \o net \o Slash \o <<"p">> \o Slash
                  \o FieldText(id.unitAddress)

\* ToInt32 of a field: undefined is 0.
ToInt32(f) == IF f = <<>> THEN 0 ELSE f[1]

\* x << k; the operands here are at most 24 bits shifted by at most 24, and
\* byte-sized fields keep every result below 2^31, where no bit is lost.
Shl(n, k) == n * (2 ^ k)

\* x | y, bit by bit.
RECURSIVE BitOr(_, _)
BitOr(a, b) ==
    IF a = 0 THEN b
    ELSE IF b = 0 THEN a
    ELSE (IF a % 2 = 1 \/ b % 2 = 1 THEN 1 ELSE 0) + 2 * BitOr(a \div 2, b \div 2)

\* getHash: the project name, or the packed address in lowercase hexadecimal.
getHash(id) ==
    IF isProjectId(id) THEN id.project
    ELSE IF isUnitId(id)
    THEN IntToStr(BitOr(BitOr(Shl(2, 24), Shl(ToInt32(id.network), 16)),
                        ToInt32(id.unitAddress)), 16, HexChars)
    ELSE IntToStr(BitOr(BitOr(BitOr(Shl(1, 24), Shl(ToInt32(id.network), 16)),
                              Shl(ToInt32(id.application), 8)),
                        ToInt32(id.group)), 16, HexChars)

isSameNetwork(a, b) == a.network = b.network

isSameApplication(a, b) == a.application = b.application

isEquals(a, b) ==
    IF a.project # b.project THEN FALSE
    ELSE getHash(a) = getHash(b)

\* compare with the project tier answering -1 for any two different projects.
compareNoProjectOrder(a, b) ==
    IF a.project # b.project THEN -1
    ELSE IF isUnitId(a) # isUnitId(b)
    THEN (IF isUnitId(a) THEN 1 ELSE -1)
    ELSE (IF StrLess(getHash(a), getHash(b)) THEN -1 ELSE 1)

\* compare without the tier that puts unit netIds last.
compareNoUnitTier(a, b) ==
    IF a.project # b.project
    THEN (IF StrLess(a.project, b.project) THEN -1 ELSE 1)
    ELSE (IF StrLess(getHash(a), getHash(b)) THEN -1 ELSE 1)

compare(a, b) ==
    IF a.project # b.project
    THEN (IF StrLess(a.project, b.project) THEN -1 ELSE 1)
    ELSE IF isUnitId(a) # isUnitId(b)
    THEN (IF isUnitId(a) THEN 1 ELSE -1)
    ELSE (IF StrLess(getHash(a), getHash(b)) THEN -1 ELSE 1)

---------------------------------------------------------------------------
(* Parsing: NETID_REGEX, matched the way a backtracking matcher does, every *)
(* quantifier greedy, the first successful alternative taken.               *)

NoMatch == [ok |-> FALSE, c |-> <<Undef, Undef, Undef, Undef, Undef>>]

HasAt(s, i, c) == i <= Len(s) /\ s[i] = c

\* Exactly k digits stand at i .. i+k-1.
DigitRunAt(s, i, k) ==
    i + k - 1 <= Len(s) /\ \A j \in i..(i + k - 1) : s[j] \in DigitSet

\* \/?(\d{1,3})?$ from position i: capture 5.
MatchTail(s, i) ==
    LET j == IF HasAt(s, i, "/") THEN i + 1 ELSE i
        rest == SubSeq(s, j, Len(s))
    IN  IF Len(rest) <= FieldMaxDigits /\ AllDigits(rest)
        THEN [ok |-> TRUE,
              c |-> <<Undef, Undef, Undef, Undef,
                      IF rest = <<>> THEN Undef ELSE Str(rest)>>]
        ELSE NoMatch

\* (?:\/(\d{1,3}))? and the tail: capture 4 with k digits, then fewer, then absent.
RECURSIVE MatchFourth(_, _, _)
MatchFourth(s, i, k) ==
    IF k = 0 THEN MatchTail(s, i)
    ELSE LET m == IF HasAt(s, i, "/") /\ DigitRunAt(s, i + 1, k)
                  THEN MatchTail(s, i + 1 + k) ELSE NoMatch
         IN  IF m.ok THEN [m EXCEPT !.c[4] = Str(SubSeq(s, i + 1, i + k))]
             ELSE MatchFourth(s, i, k - 1)

\* The digit alternative of capture 3, then the rest.
RECURSIVE MatchThirdDigits(_, _, _)
MatchThirdDigits(s, i, k) ==
    IF k = 0 THEN MatchTail(s, i)
    ELSE LET m == IF HasAt(s, i, "/") /\ DigitRunAt(s, i + 1, k)
                  THEN MatchFourth(s, i + 1 + k, FieldMaxDigits) ELSE NoMatch
         IN  IF m.ok THEN [m EXCEPT !.c[3] = Str(SubSeq(s, i + 1, i + k))]
             ELSE MatchThirdDigits(s, i, k - 1)

\* (?:\/(p|\d{1,3}) ... )? : p is tried first.
MatchThird(s, i) ==
    LET m == IF HasAt(s, i, "/") /\ HasAt(s, i + 1, "p")
             THEN MatchFourth(s, i + 2, FieldMaxDigits) ELSE NoMatch
    IN  IF m.ok THEN [m EXCEPT !.c[3] = Str(<<"p">>)]
        ELSE MatchThirdDigits(s, i, FieldMaxDigits)

\* (?:\/(\d{1,3}) ... )? : capture 2.
RECURSIVE MatchSecond(_, _, _)
MatchSecond(s, i, k) ==
    IF k = 0 THEN MatchTail(s, i)
    ELSE LET m == IF HasAt(s, i, "/") /\ DigitRunAt(s, i + 1, k)
                  THEN MatchThird(s, i + 1 + k) ELSE NoMatch
         IN  IF m.ok THEN [m EXCEPT !.c[2] = Str(SubSeq(s, i + 1, i + k))]
             ELSE MatchSecond(s, i, k - 1)

\* ([A-Z0-9_]{1,8}) from position 3: capture 1, the longest first.
RECURSIVE MatchProject(_, _)
MatchProject(s, k) ==
    IF k = 0 THEN NoMatch
    ELSE LET m == IF 2 + k <= Len(s)
                     /\ \A j \in 3..(2 + k) : s[j] \in UpperSet \cup DigitSet \cup {"_"}
                  THEN MatchSecond(s, 3 + k, FieldMaxDigits) ELSE NoMatch
         IN  IF m.ok THEN [m EXCEPT !.c[1] = Str(SubSeq(s, 3, 2 + k))]
             ELSE MatchProject(s, k - 1)

\* netIdString.match(NETID_REGEX)
RegexMatch(s) ==
    IF HasAt(s, 1, "/") /\ HasAt(s, 2, "/") THEN MatchProject(s, ProjectMaxLen)
    ELSE NoMatch

\* CBusNetId.parse
parse(netIdString) ==
    LET m == RegexMatch(netIdString)
    IN  IF ~m.ok THEN Failed(<<"badly formed netid">>)
        ELSE CBusNetId(m.c[1], m.c[2], m.c[3], m.c[4], m.c[5])

---------------------------------------------------------------------------
(* Bounds and the inputs of the calls                                      *)

\* Small field values 0..MaxNum are tried beside the limits of each range.
MaxNum == 1

\* A parsed text is // and a project followed by at most MaxSegments segments.
MaxSegments == 5

\* Networks, groups and units of the compared netIds: 0..MaxCmpNum and 255
\* (their application, when they have one, is 0).
MaxCmpNum == 0

FieldNums == (0..MaxNum) \cup {-1, MaxByte, MaxByte + 1}

ChannelNums == (0..MaxNum) \cup {-1, ChannelLimit - 1, ChannelLimit}

ProjectArgs ==
    { Undef, Str(<<"A">>), Str(<<"P">>), Str(<<"C", "M", "D", "1">>),
      Str(<<"1", "_">>), Str(<<"a">>) }

NetworkArgs == {Undef, Str(<<"7">>)} \cup {Num(n) : n \in FieldNums}

ThirdArgs == {Undef, Str(<<"p">>)} \cup {Num(n) : n \in FieldNums}

FourthArgs == {Undef, Str(<<"x">>)} \cup {Num(n) : n \in FieldNums}

ChannelArgs == {Undef, Str(<<"0">>)} \cup {Num(n) : n \in ChannelNums}

Segments == { <<"/">>, <<"/", "0">>, <<"/", "3">>, <<"/", "p">>, <<"3">> }

RECURSIVE Tails(_)
Tails(k) ==
    IF k = 0 THEN { <<>> }
    ELSE LET shorter == Tails(k - 1)
         IN  shorter \cup { t \o g : t \in shorter, g \in Segments }

TextProjects == { <<"A">>, <<"A", "B", "C", "D", "E", "F", "G", "H">> }

Texts ==
    { <<"/", "/">> \o p \o t : p \in TextProjects, t \in Tails(MaxSegments) }
        \cup { <<>>, <<"/", "A">>, <<"/", "/">>, <<"/", "/", "a">>,
               <<"/", "/", "A", "/", "/", "3">> }

CmpProjects == { Str(<<"1", "F">>), Str(<<"B">>) }

CmpNums == (0..MaxCmpNum) \cup {MaxByte}

CmpNetworkArgs == {Undef} \cup {Num(n) : n \in CmpNums}

CmpThirdArgs == {Undef, Str(<<"p">>), Num(0)}

CmpFourthArgs == {Undef} \cup {Num(n) : n \in CmpNums}

CmpChannelArgs == {Undef, Num(3)}

---------------------------------------------------------------------------
(* The calls.  x, y and z hold the objects made; out is the last call: its *)
(* operation, arguments, thrown error, and returned string, numbers or     *)
(* boolean; pc is the caller's position.                                   *)

Call(op, arg, err, str, nums, bool) ==
    [op |-> op, arg |-> arg, err |-> err, str |-> str, nums |-> nums, bool |-> bool]

Idle == Call("idle", <<>>, <<>>, <<>>, <<>>, FALSE)

Init ==
    /\ x = NoId
    /\ y = NoId
    /\ z = NoId
    /\ out = Idle
    /\ pc = "start"

\* x = new CBusNetId(...)
New(project, network, param3, param4, param5) ==
    /\ pc = "start"
    /\ LET r == CBusNetId(project, network, param3, param4, param5)
       IN  /\ x' = r.id
           /\ out' = Call("new", <<project, network, param3, param4, param5>>,
                          r.err, <<>>, <<>>, FALSE)
    /\ pc' = "made"
    /\ UNCHANGED <<y, z>>

\* x = CBusNetId.parse(text)
Parse(text) ==
    /\ pc = "start"
    /\ LET r == parse(text)
       IN  /\ x' = r.id
           /\ out' = Call("parse", <<Str(text)>>, r.err, <<>>, <<>>, FALSE)
    /\ pc' = "made"
    /\ UNCHANGED <<y, z>>

\* x.toString()
ToString ==
    /\ pc = "made"
    /\ x # NoId
    /\ out' = Call("toString", <<>>, <<>>, toString(x), <<>>, FALSE)
    /\ pc' = "shown"
    /\ UNCHANGED <<x, y, z>>

\* y = CBusNetId.parse(x.toString())
ParseBack ==
    /\ pc = "shown"
    /\ LET r == parse(out.str)
       IN  /\ y' = r.id
           /\ out' = Call("parse", <<Str(out.str)>>, r.err, <<>>, <<>>, FALSE)
    /\ pc' = "back"
    /\ UNCHANGED <<x, z>>

\* y.isEquals(x)
IsEqualsBack ==
    /\ pc = "back"
    /\ y # NoId
    /\ out' = Call("isEquals", <<>>, <<>>, <<>>, <<>>, isEquals(y, x))
    /\ pc' = "done"
    /\ UNCHANGED <<x, y, z>>

\* The first call is a construction on any of the arguments ...
Construct ==
    /\ pc = "start"
    /\ \E p \in ProjectArgs, n \in NetworkArgs, a \in ThirdArgs,
          g \in FourthArgs, c \in ChannelArgs : New(p, n, a, g, c)

\* ... or a parse of any of the texts.
ParseText ==
    /\ pc = "start"
    /\ \E t \in Texts : Parse(t)

Next ==
    \/ Construct
    \/ ParseText
    \/ ToString
    \/ ParseBack
    \/ IsEqualsBack

Spec == Init /\ [][Next]_vars

---------------------------------------------------------------------------
(* Comparing: three objects are made, then compared and tested for         *)
(* equality.                                                               *)

InitCmp ==
    /\ x = NoId
    /\ y = NoId
    /\ z = NoId
    /\ out = Idle
    /\ pc = "first"

\* The result of one construction, as the last call.
NewCall(project, network, param3, param4, param5) ==
    Call("new", <<project, network, param3, param4, param5>>,
         CBusNetId(project, network, param3, param4, param5).err, <<>>, <<>>, FALSE)

\* x = new CBusNetId(...), with or without a channel
First ==
    /\ pc = "first"
    /\ \E p \in CmpProjects, n \in CmpNetworkArgs, a \in CmpThirdArgs,
          g \in CmpFourthArgs, c \in CmpChannelArgs :
          /\ x' = CBusNetId(p, n, a, g, c).id
          /\ out' = NewCall(p, n, a, g, c)
    /\ pc' = "second"
    /\ UNCHANGED <<y, z>>

\* y = new CBusNetId(...)
Second ==
    /\ pc = "second"
    /\ x # NoId
    /\ \E p \in CmpProjects, n \in CmpNetworkArgs, a \in CmpThirdArgs,
          g \in CmpFourthArgs :
          /\ y' = CBusNetId(p, n, a, g, Undef).id
          /\ out' = NewCall(p, n, a, g, Undef)
    /\ pc' = "third"
    /\ UNCHANGED <<x, z>>

\* z = new CBusNetId(...)
Third ==
    /\ pc = "third"
    /\ y # NoId
    /\ \E p \in CmpProjects, n \in CmpNetworkArgs, a \in CmpThirdArgs,
          g \in CmpFourthArgs :
          /\ z' = CBusNetId(p, n, a, g, Undef).id
          /\ out' = NewCall(p, n, a, g, Undef)
    /\ pc' = "ready"
    /\ UNCHANGED <<x, y>>

\* CBusNetId.compare(x, y)
CompareXY ==
    /\ pc = "ready"
    /\ z # NoId
    /\ out' = Call("compare", <<>>, <<>>, <<>>, <<compare(x, y)>>, FALSE)
    /\ pc' = "xy"
    /\ UNCHANGED <<x, y, z>>

\* CBusNetId.compare(y, z)
CompareYZ ==
    /\ pc = "xy"
    /\ out' = Call("compare", <<>>, <<>>, <<>>, Append(out.nums, compare(y, z)), FALSE)
    /\ pc' = "yz"
    /\ UNCHANGED <<x, y, z>>

\* CBusNetId.compare(x, z)
CompareXZ ==
    /\ pc = "yz"
    /\ out' = Call("compare", <<>>, <<>>, <<>>, Append(out.nums, compare(x, z)), FALSE)
    /\ pc' = "xz"
    /\ UNCHANGED <<x, y, z>>

\* x.isEquals(y), after the comparisons, whose results stay in out.nums
IsEqualsXY ==
    /\ pc = "xz"
    /\ out' = Call("isEquals", <<>>, <<>>, <<>>, out.nums, isEquals(x, y))
    /\ pc' = "eq"
    /\ UNCHANGED <<x, y, z>>

NextCmp ==
    \/ First
    \/ Second
    \/ Third
    \/ CompareXY
    \/ CompareYZ
    \/ CompareXZ
    \/ IsEqualsXY

SpecCmp == InitCmp /\ [][NextCmp]_vars

---------------------------------------------------------------------------
(* Properties                                                              *)

IsSet(f) == f # <<>>

\* The five classification predicates of a netId.
Kinds(id) ==
    <<isProjectId(id), isNetworkId(id), isApplicationId(id), isGroupId(id),
      isUnitId(id)>>

KindCount(id) == Cardinality({i \in 1..5 : Kinds(id)[i]})

\* The fields of a text between its slashes.
RECURSIVE SplitSlash(_)
SplitSlash(s) ==
    IF \A i \in DOMAIN s : s[i] # "/" THEN <<s>>
    ELSE LET i == CHOOSE k \in DOMAIN s :
                      s[k] = "/" /\ \A j \in 1..(k - 1) : s[j] # "/"
         IN  <<SubSeq(s, 1, i - 1)>> \o SplitSlash(SubSeq(s, i + 1, Len(s)))

\* The canonical grammar:
\*   "//" project ("/" network ("/" appOrUnit ("/" group)?)?)? ("/" channel)?
\* with project [A-Z0-9_]{1,8}, appOrUnit "p" or \d{1,3}, the others \d{1,3}.
InGrammar(s) ==
    /\ Len(s) > 2
    /\ s[1] = "/"
    /\ s[2] = "/"
    /\ LET f == SplitSlash(SubSeq(s, 3, Len(s)))
       IN  /\ Len(f) \in 1..5
           /\ Len(f[1]) \in 1..8
           /\ \A i \in DOMAIN f[1] : f[1][i] \in UpperSet \cup DigitSet \cup {"_"}
           /\ \A k \in 2..Len(f) :
                 \/ Len(f[k]) \in 1..3 /\ AllDigits(f[k])
                 \/ k = 3 /\ f[k] = <<"p">>

\* The fields the five arguments of a construction ask for.
AskedNetwork(arg) == integerise(arg[2])

AskedUnit(arg) == IF arg[3] = Str(<<"p">>) THEN integerise(arg[4]) ELSE <<>>

AskedApplication(arg) == IF arg[3] = Str(<<"p">>) THEN <<>> ELSE integerise(arg[3])

AskedGroup(arg) == IF arg[3] = Str(<<"p">>) THEN <<>> ELSE integerise(arg[4])

BreaksHierarchy(arg) ==
    \/ IsSet(AskedGroup(arg)) /\ ~IsSet(AskedApplication(arg))
    \/ IsSet(AskedApplication(arg)) /\ ~IsSet(AskedNetwork(arg))
    \/ IsSet(AskedUnit(arg)) /\ ~IsSet(AskedNetwork(arg))

\* C1: every netId the constructor or the parser returned parses back from its
\* toString() text, and the parsed netId isEquals the original.
C1_RoundTrip ==
    pc = "back" => (out.err = <<>> /\ y # NoId /\ isEquals(y, x))

\* C2: compare answers -1, 0 or 1, and 0 exactly when isEquals is true.
C2_CompareConsistentWithEquals ==
    pc = "xy" =>
        /\ out.nums[1] \in {-1, 0, 1}
        /\ (out.nums[1] = 0) <=> isEquals(x, y)

\* C3: a netId returned by construction or parsing with a channel set has a
\* group set.
C3_ChannelOnlyWithGroup ==
    (pc = "made" /\ x # NoId) => (IsSet(x.channel) => IsSet(x.group))

\* C4: a text outside the canonical grammar makes parse fail with the
\* malformed-netid error, and no netId is returned.
C4_ParseRejectsNonGrammar ==
    (pc = "made" /\ out.op = "parse" /\ ~InGrammar(out.arg[1].s)) =>
        (out.err = <<"badly formed netid">> /\ x = NoId)

\* C5: two netIds that isEquals calls equal are of the same kind: each of the
\* five classification predicates answers the same on both.
C5_EqualsSameKind ==
    (pc = "eq" /\ out.bool) => Kinds(x) = Kinds(y)

\* C6: at most one classification predicate is true of a netId, exactly one
\* when it has no channel, and isGroupId is false of a netId with a group and
\* a channel.
C6_ExclusiveKinds ==
    (pc = "made" /\ x # NoId) =>
        /\ KindCount(x) <= 1
        /\ ~IsSet(x.channel) => KindCount(x) = 1
        /\ (IsSet(x.group) /\ IsSet(x.channel)) => ~isGroupId(x)

\* C7: a constructed netId with a group has an application, one with an
\* application has a network, one with a unit address has a network; and a
\* construction whose arguments ask for a combination breaking one of these
\* throws and yields no netId.
C7_Hierarchy ==
    /\ x # NoId =>
          /\ IsSet(x.group) => IsSet(x.application)
          /\ IsSet(x.application) => IsSet(x.network)
          /\ IsSet(x.unitAddress) => IsSet(x.network)
    /\ (pc = "made" /\ out.op = "new" /\ BreaksHierarchy(out.arg)) =>
          (x = NoId /\ out.err # <<>>)

\* C7 witness: a construction asking for an application without a network threw
\* the error of that rule.
C7_Witness ==
    /\ pc = "made"
    /\ out.op = "new"
    /\ IsSet(AskedApplication(out.arg))
    /\ ~IsSet(AskedNetwork(out.arg))
    /\ out.err = <<"netIds with application must have a network">>
    /\ x = NoId

\* C8: in a netId returned by construction or parsing, network, application,
\* group and unitAddress, when set, are in 0..255 and channel, when set, is in
\* 1..7: a channel argument that is an integer outside 1..7 is an error or
\* leaves the channel unset.
C8_Ranges ==
    (pc = "made" /\ x # NoId) =>
        /\ \A f \in {x.network, x.application, x.group, x.unitAddress} :
              IsSet(f) => f[1] \in 0..MaxByte
        /\ IsSet(x.channel) => x.channel[1] \in 1..(ChannelLimit - 1)
        /\ (out.op = "new" /\ IsSet(integerise(out.arg[5]))
              /\ integerise(out.arg[5])[1] \notin 1..(ChannelLimit - 1)) =>
              ~IsSet(x.channel)

\* C9: compare is transitive: compare(x, y) = -1 and compare(y, z) = -1 give
\* compare(x, z) = -1.
C9_Transitive ==
    pc = "xz" =>
        ((out.nums[1] = -1 /\ out.nums[2] = -1) => out.nums[3] = -1)

\* C9 witness: within one project, a netId with a hexadecimal hash below the
\* project netId, and the project netId below another hexadecimal hash.
C9_Witness ==
    /\ pc = "xz"
    /\ out.nums = <<-1, -1, -1>>
    /\ x.project = y.project
    /\ y.project = z.project
    /\ ~isProjectId(x)
    /\ isProjectId(y)
    /\ ~isProjectId(z)
    /\ ~isUnitId(z)

\* C10: between different projects compare follows the order of the project
\* names alone; within one project a unit netId comes after any netId that is not
\* a unit, whatever the hashes.
C10_Priority ==
    pc = "xy" =>
        /\ x.project # y.project =>
              out.nums[1] = (IF StrLess(x.project, y.project) THEN -1 ELSE 1)
        /\ (x.project = y.project /\ ~isUnitId(x) /\ isUnitId(y)) => out.nums[1] = -1
        /\ (x.project = y.project /\ isUnitId(x) /\ ~isUnitId(y)) => out.nums[1] = 1

\* C10 witness: a project netId, whose hash is above the unit's, compared with a
\* unit of the same project, comes first.
C10_Witness ==
    /\ pc = "xy"
    /\ x.project = y.project
    /\ isProjectId(x)
    /\ isUnitId(y)
    /\ StrLess(getHash(y), getHash(x))
    /\ out.nums[1] = -1

====
